---- MODULE Spec2Model ----
(***************************************************************************)
(* Voice Adventure backend (src/backend/main.py): the two Vapi webhook     *)
(* handlers, vapi_generate_scene and vapi_generate_choices, the direct     *)
(* handlers, the image helper make_image they dispatch to worker threads,  *)
(* and the static directory the images are written to.                     *)
(*                                                                         *)
(* One webhook request is followed from its raw body to its response.      *)
(* The handler runs on the event loop and is cut at its suspension points  *)
(* (the awaits on run_in_executor / asyncio.gather) and at the iterations  *)
(* of its for loop; every make_image call is a task on a worker thread     *)
(* that draws a file name, writes its file and returns, one step each, or  *)
(* raises before the draw or at the write.                                 *)
(* The handlers print messages and request strings to the standard output  *)
(* before they act: a string that cannot be encoded makes print raise when *)
(* the output is strict, and makes the encoding of the response fail       *)
(* otherwise; an output that cannot encode the emoji of the messages makes *)
(* every print of a handler raise, the one of its except clause included.  *)
(*                                                                         *)
(* Python values: Optional[T] is the empty tuple (None) or a 1-tuple; a    *)
(* dict is a function from its keys; an f-string is the tuple of its       *)
(* pieces, so that a text "embeds" a path when the path's pieces occur in  *)
(* it.                                                                     *)
(***************************************************************************)
EXTENDS Integers, Sequences, FiniteSets, TLC

(***************************************************************************)
(* Bound of the model.                                                     *)
(***************************************************************************)
MaxToolCalls == 2        \* longest toolCallList of a request
MaxServerToolCalls == 1  \* longest toolCallList of a webhook request that runs beside a direct request
MaxStoreToolCalls == 2   \* length of the toolCallList of a webhook request that fails after an earlier entry, beside a direct request

(***************************************************************************)
(* Optional values and Python truthiness.                                  *)
(***************************************************************************)
None == <<>>
Some(x) == <<x>>
Opt(S) == {None} \cup {Some(x) : x \in S}

\* `not s` for an Optional[str]: None and the empty string are falsy
FalsyStr(s) == IF s = None THEN TRUE ELSE s[1] = ""
\* `not m` for an Optional[BaseModel]: only None is falsy
FalsyModel(m) == m = None
\* `not l` for an Optional[List]: None and the empty list are falsy
FalsyList(l) == IF l = None THEN TRUE ELSE Len(l[1]) = 0

(***************************************************************************)
(* Strings: UTF-8 encoding, and the lines the handlers write to stdout.    *)
(***************************************************************************)
\* the sample strings that hold a lone surrogate (JSON "\ud800", "\udc00",
\* which json.loads and the request models accept): the index of the
\* surrogate and the way Python writes it in an error message
LoneSurrogates ==
    [s \in {"<U+D800>", "get_<U+D800>", "call_<U+DC00>"} |->
        CASE s = "<U+D800>" -> [at |-> 0, escape |-> "\\ud800"]
          [] s = "get_<U+D800>" -> [at |-> 4, escape |-> "\\ud800"]
          [] s = "call_<U+DC00>" -> [at |-> 5, escape |-> "\\udc00"]]

\* s.encode("utf-8") succeeds
Encodable(s) == s \notin DOMAIN LoneSurrogates

\* what sys.stdout can be, fixed when the process starts: UTF-8 with the
\* error handler "strict" (the default), which raises on a lone surrogate; an
\* error handler that writes a replacement, such as "backslashreplace"; or a
\* strict encoding without the emoji of the handlers' messages, such as ascii
\* or latin-1
StdoutModes == {"strict", "backslashreplace", "ascii"}

\* str() of the UnicodeEncodeError raised for the w consecutive characters
\* that cannot be encoded, the first written esc, at index pos of the text
\* being encoded: one character is named, a longer run is given by its ends
UnicodeEncodeError(mode, esc, pos, w) ==
    (IF mode = "ascii" THEN <<"'ascii' codec can't encode ">>
                       ELSE <<"'utf-8' codec can't encode ">>)
    \o (IF w = 1
          THEN <<"character '", esc, "' in position ", ToString(pos)>>
          ELSE <<"characters in position ", ToString(pos), "-", ToString(pos + w - 1)>>)
    \o (IF mode = "ascii" THEN <<": ordinal not in range(128)">>
                          ELSE <<": surrogates not allowed">>)

\* the pieces of a printed f-string: an ASCII literal of w characters, a
\* literal emoji (w characters outside ASCII, the first written esc), or a
\* value
Lit(w) == [lit |-> TRUE, w |-> w, s |-> "", esc |-> ""]
Emoji(esc, w) == [lit |-> TRUE, w |-> w, s |-> "", esc |-> esc]
Val(s) == [lit |-> FALSE, w |-> 0, s |-> s, esc |-> ""]

\* encoding one line, the text before it being pos characters long: None, or
\* the error of the first character that cannot be encoded
RECURSIVE LineError(_, _, _)
LineError(mode, line, pos) ==
    IF line = <<>> THEN None
    ELSE IF Head(line).lit
           THEN IF Head(line).esc # "" /\ mode = "ascii"
                  THEN Some(UnicodeEncodeError(mode, Head(line).esc, pos, Head(line).w))
                  ELSE LineError(mode, Tail(line), pos + Head(line).w)
    ELSE IF Encodable(Head(line).s)
           THEN LineError(mode, Tail(line), pos + Len(Head(line).s))
    ELSE Some(UnicodeEncodeError(mode, LoneSurrogates[Head(line).s].escape,
                                 pos + LoneSurrogates[Head(line).s].at, 1))

\* the error of the first of several print calls that fails
RECURSIVE FirstError(_, _)
FirstError(mode, lines) ==
    IF lines = <<>> THEN None
    ELSE IF LineError(mode, Head(lines), 0) # None THEN LineError(mode, Head(lines), 0)
    ELSE FirstError(mode, Tail(lines))

(***************************************************************************)
(* Inputs: the raw body of a webhook request.                              *)
(***************************************************************************)
Endpoints == {"/vapi/generate_scene", "/vapi/generate_choices"}

ToolCallIds == {"", "call_1", "error"}

SceneArguments ==
    { None,
      Some([scene_prompt |-> "a misty castle"]) }
ChoicesArguments ==
    { None,
      Some([choice_a_prompt |-> "a dark cave", choice_b_text |-> "Cross the river"]),
      Some([choice_a_prompt |-> "a dark cave", choice_b_prompt |-> "a wide river",
            choice_a_text |-> "Enter the cave", choice_b_text |-> "Cross the river"]) }

\* VapiFunction: name and arguments, both optional
VapiFunction ==
    {[name |-> None, arguments |-> None],
     [name |-> Some(""), arguments |-> None],
     [name |-> Some("get_weather"), arguments |-> None]}
    \cup {[name |-> Some("generate_scene"), arguments |-> a] : a \in SceneArguments}
    \cup {[name |-> Some("generate_choices"), arguments |-> a] : a \in ChoicesArguments}

\* VapiToolCall: id and function, both optional (the unused type field is left out)
VapiToolCall == [id : Opt(ToolCallIds), function : Opt(VapiFunction)]

\* entries whose id, function name or argument holds a lone surrogate
SurrogateToolCalls ==
    {[id |-> Some("call_<U+DC00>"),
      function |-> Some([name |-> Some("generate_scene"),
                         arguments |-> Some([scene_prompt |-> "a misty castle"])])],
     [id |-> Some("call_2"),
      function |-> Some([name |-> Some("get_<U+D800>"), arguments |-> None])],
     [id |-> Some("call_1"),
      function |-> Some([name |-> Some("generate_scene"),
                         arguments |-> Some([scene_prompt |-> "<U+D800>"])])],
     [id |-> Some("call_1"),
      function |-> Some([name |-> Some("generate_choices"),
                         arguments |-> Some([choice_a_text |-> "<U+D800>"])])]}

ToolCallLists ==
    UNION {[1..n -> VapiToolCall \cup SurrogateToolCalls] : n \in 0..MaxToolCalls}

\* VapiMessage: an optional toolCallList
VapiMessage == [toolCallList : Opt(ToolCallLists)]

\* the raw body: what it decodes and parses to
\*   not_utf8     bytes that are not UTF-8
\*   not_json     text that json.loads rejects
\*   not_object   valid JSON that is not an object (list, string, number, null)
\*   not_envelope a JSON object that VapiRequest rejects (ValidationError)
\*   envelope     a JSON object that VapiRequest accepts, with its message
BodyShapes == {"not_utf8", "not_json", "not_object", "not_envelope", "envelope"}
Bodies ==
    {[shape |-> s, message |-> None] : s \in BodyShapes}
    \cup {[shape |-> "envelope", message |-> Some(m)] : m \in VapiMessage}

(***************************************************************************)
(* State.                                                                  *)
(***************************************************************************)
VARIABLES
    endpoint,     \* the route the request was posted to
    body,         \* the raw request body
    pc,           \* position of the handler coroutine
    idx,          \* index in toolCallList of the entry the for loop is at
    results,      \* the local list `results` of the handler
    response,     \* None until the handler returns; then the HTTP response
    tasks,        \* the make_image calls submitted to the thread pool, in order
    files,        \* the files in the static directory
    uuids,        \* how many uuid4 values have been drawn
    route,        \* the route of the direct request (a direct endpoint or /health)
    req,          \* the validated body of the direct request
    dpc,          \* position of the direct request's handler coroutine
    reply,        \* None until the direct handler ends; then the HTTP response
    stdout        \* the encoding and error handler of sys.stdout (see StdoutModes)

\* the state of the direct request
dvars == <<route, req, dpc, reply>>

vars == <<endpoint, body, pc, idx, results, response, tasks, files, uuids, dvars,
          stdout>>

(***************************************************************************)
(* Responses.                                                              *)
(***************************************************************************)
HTTP_200_OK == 200
HTTP_500_INTERNAL_SERVER_ERROR == 500

\* the sentinel toolCallId of the uniform error result
ErrorToolCallId == "error"

\* VapiResult(toolCallId=..., result=...)
VapiResult(toolCallId, result) == [toolCallId |-> toolCallId, result |-> result]

\* `return VapiResponse(results=...)` from a route declared with
\* response_model=VapiResponse: FastAPI sends it with the default status
VapiResponse(rs) == [status_code |-> HTTP_200_OK, results |-> rs]

\* the response body is JSON encoded as UTF-8 after the handler has returned
ResultsEncodable(rs) ==
    \A k \in 1..Len(rs) :
        /\ Encodable(rs[k].toolCallId)
        /\ \A j \in 1..Len(rs[k].result) : Encodable(rs[k].result[j])

\* an exception that leaves the application: the server answers with the
\* plain text "Internal Server Error", which holds no results list
InternalServerError == [status_code |-> HTTP_500_INTERNAL_SERVER_ERROR, results |-> <<>>]

\* the three early returns of the parse and envelope steps
ValidationFailedResponse ==
    VapiResponse(<<VapiResult(ErrorToolCallId,
                     <<"Request validation failed: ", "ValidationError">>)>>)
ParsingFailedResponse(pe) ==
    VapiResponse(<<VapiResult(ErrorToolCallId,
                     <<"Request parsing failed: ", pe>>)>>)
NoToolCallsResponse ==
    VapiResponse(<<VapiResult(ErrorToolCallId,
                     <<"No tool calls found in request">>)>>)

\* faulty variant of ServerErrorResponse: keeping the results collected so far
ServerErrorResponse_KeepResults(rs, e) ==
    VapiResponse(Append(rs, VapiResult(ErrorToolCallId, <<"Server error: ">> \o e)))
\* the handler's outermost `except Exception as e`: the results collected so
\* far are dropped and one sentinel result is returned; e is str(e)
ServerErrorResponse(rs, e) ==
    VapiResponse(<<VapiResult(ErrorToolCallId, <<"Server error: ">> \o e)>>)

\* what print raises while the lines are written: None, or the error
StdoutWrite(lines) ==
    IF stdout = "backslashreplace" THEN None ELSE FirstError(stdout, lines)

\* the first print of a webhook handler (lines 249, 342) and the print of
\* its outermost except clause (323, 426)
RawRequestLine(ep) ==
    <<Emoji("\\U0001f3af", 1),
      Lit(IF ep = "/vapi/generate_scene" THEN 34 ELSE 36)>>
ErrorLine(ep) ==
    <<Emoji("\\u274c", 1), Lit(IF ep = "/vapi/generate_scene" THEN 31 ELSE 33)>>

\* the whole outermost except clause: it prints the error and returns the
\* sentinel result; when its own print raises, the exception leaves the
\* handler and the server answers 500
ExceptResponse(ep, rs, e) ==
    IF StdoutWrite(<<ErrorLine(ep)>>) # None
      THEN InternalServerError
      ELSE ServerErrorResponse(rs, e)

(***************************************************************************)
(* make_image: the pure parts.                                             *)
(***************************************************************************)
\* faulty variant of Filename: one fixed name for every image
Filename_Fixed(n) == <<"image", ".png">>
\* f"{uuid.uuid4()}.png"; the n-th uuid4 drawn is a value never drawn before
Filename(n) == <<ToString(n), ".png">>
\* faulty variant of StoragePath: the image is saved outside the served directory
StoragePath_Tmp(filename) == <<"tmp/">> \o filename
\* f"static/{filename}", the file img.save writes
StoragePath(filename) == <<"static/">> \o filename
\* f"/static/{filename}", the URL make_image returns
StaticUrl(filename) == <<"/static/">> \o filename

\* str(e) of what the try block of make_image catches: a sample text for an
\* error of the provider call or of the decoding, and the text of the
\* FileNotFoundError that img.save(path) raises
ProviderError == <<"provider error">>
SaveError(path) == <<"[Errno 2] No such file or directory: '">> \o path \o <<"'">>

\* str() of the HTTPException(500, f"Failed to generate image: {str(e)}")
\* that make_image raises for any provider, decode or write error
MakeImageError(cause) ==
    <<ToString(HTTP_500_INTERNAL_SERVER_ERROR), ": ", "Failed to generate image: ">>
    \o cause

\* faulty variant of Task: make_image is called in the coroutine itself, so
\* that it runs on the thread of the event loop
Task_Inline(i, prompt) ==
    [entry |-> i, prompt |-> prompt, thread |-> "loop", state |-> "running",
     filename |-> <<>>, value |-> <<>>]
\* `loop.run_in_executor(None, make_image, prompt)`: a make_image call of
\* entry i of the tool-call list, running on a thread of the default pool;
\* its local variable filename, and what it returns or raises
Task(i, prompt) ==
    [entry |-> i, prompt |-> prompt, thread |-> "pool", state |-> "running",
     filename |-> <<>>, value |-> <<>>]

(***************************************************************************)
(* The handler: parse and envelope steps.                                  *)
(***************************************************************************)
\* `if not req.message or not req.message.toolCallList`
NoToolCalls(message) ==
    IF FalsyModel(message) THEN TRUE ELSE FalsyList(message[1].toolCallList)

\* what the handler returns before its for loop, None when it reaches the loop
EarlyReturn(ep, b) ==
    CASE b.shape = "not_utf8" ->
            \* body.decode('utf-8') in the first print raises UnicodeDecodeError,
            \* which only the outermost except catches
            Some(ExceptResponse(ep, <<>>, <<"UnicodeDecodeError">>))
      [] StdoutWrite(<<RawRequestLine(ep)>>) # None ->
            \* the first print raises
            Some(ExceptResponse(ep, <<>>, StdoutWrite(<<RawRequestLine(ep)>>)[1]))
      [] b.shape = "not_json" -> Some(ParsingFailedResponse("JSONDecodeError"))
      [] b.shape = "not_object" -> Some(ParsingFailedResponse("TypeError"))
      [] b.shape = "not_envelope" -> Some(ValidationFailedResponse)
      [] OTHER ->
            IF NoToolCalls(b.message) THEN Some(NoToolCallsResponse) ELSE None

\* req.message.toolCallList, once the envelope step has passed
ToolCallList == body.message[1].toolCallList[1]

(***************************************************************************)
(* The handler: one entry of the for loop.                                 *)
(***************************************************************************)
\* faulty variant of InvalidToolCall: `is None` tests, empty strings pass
InvalidToolCall_IsNone(tc) ==
    IF tc.function = None THEN TRUE
    ELSE IF tc.function[1].name = None THEN TRUE
    ELSE tc.id = None
\* `if not tool_call.function or not tool_call.function.name or not tool_call.id`
InvalidToolCall(tc) ==
    IF FalsyModel(tc.function) THEN TRUE
    ELSE IF FalsyStr(tc.function[1].name) THEN TRUE
    ELSE FalsyStr(tc.id)

\* function_name = tool_call.function.name
FunctionName(tc) == tc.function[1].name[1]

\* function_args = tool_call.function.arguments or {}
FunctionArgs(tc) ==
    IF tc.function[1].arguments = None THEN <<>> ELSE tc.function[1].arguments[1]

\* faulty variant of Get: the default is ignored
Get_NoDefault(args, key, default) ==
    IF key \in DOMAIN args THEN args[key] ELSE ""
\* function_args.get(key, default)
Get(args, key, default) ==
    IF key \in DOMAIN args THEN args[key] ELSE default

\* faulty variant of HandledTool: the two names exchanged
HandledTool_Swapped(ep) ==
    IF ep = "/vapi/generate_scene" THEN "generate_choices" ELSE "generate_scene"
\* the one function name each handler compares against
HandledTool(ep) ==
    IF ep = "/vapi/generate_scene" THEN "generate_scene" ELSE "generate_choices"

\* the argument defaults of the two handlers
DefaultScenePrompt == "A mysterious adventure scene..."
DefaultChoiceAPrompt == "Option A"
DefaultChoiceBPrompt == "Option B"
DefaultChoiceAText == "Choice A"
DefaultChoiceBText == "Choice B"

ScenePrompt(tc) == Get(FunctionArgs(tc), "scene_prompt", DefaultScenePrompt)
ChoiceAPrompt(tc) == Get(FunctionArgs(tc), "choice_a_prompt", DefaultChoiceAPrompt)
ChoiceBPrompt(tc) == Get(FunctionArgs(tc), "choice_b_prompt", DefaultChoiceBPrompt)
ChoiceAText(tc) == Get(FunctionArgs(tc), "choice_a_text", DefaultChoiceAText)
ChoiceBText(tc) == Get(FunctionArgs(tc), "choice_b_text", DefaultChoiceBText)

\* the result texts
SceneResultText(scene_url) ==
    <<"Scene generated successfully! Image URL: ">> \o scene_url
ChoicesResultText(a_text, a_img, b_text, b_img) ==
    <<"Choices generated successfully! Choice A (", a_text, "): ">> \o a_img
    \o <<", Choice B (", b_text, "): ">> \o b_img
UnknownToolText(function_name) == <<"Unknown tool: ", function_name>>

\* the else branch: results.append(VapiResult(toolCallId=tool_call.id, ...))
AppendUnknown(rs, tc) ==
    Append(rs, VapiResult(tc.id[1], UnknownToolText(FunctionName(tc))))

\* the make_image calls of entry i, in the order they were submitted
TasksOf(i) == SelectSeq(tasks, LAMBDA t : t.entry = i)

\* the lines the loop body prints for a valid entry before it acts: the
\* name and the id (lines 290, 383), then the prompts and texts of a handled
\* tool (296, 393-394) or the name of an unknown one (312, 415)
ProcessingLine(tc) ==
    <<Emoji("\\U0001f3a8", 1), Lit(23), Val(FunctionName(tc)),
      Lit(6), Val(tc.id[1]), Lit(1)>>
SceneLine(tc) == <<Emoji("\\U0001f31f", 1), Lit(19), Val(ScenePrompt(tc))>>
ChoicesLine == <<Emoji("\\U0001f500", 1), Lit(20)>>
ChoiceALine(tc) ==
    <<Lit(12), Val(ChoiceAPrompt(tc)), Lit(2), Val(ChoiceAText(tc)), Lit(1)>>
ChoiceBLine(tc) ==
    <<Lit(12), Val(ChoiceBPrompt(tc)), Lit(2), Val(ChoiceBText(tc)), Lit(1)>>
UnknownLine(tc) == <<Emoji("\\u26a0", 2), Lit(20), Val(FunctionName(tc))>>
LoopBodyLines(ep, tc) ==
    <<ProcessingLine(tc)>> \o
    (IF FunctionName(tc) # HandledTool(ep) THEN <<UnknownLine(tc)>>
     ELSE IF ep = "/vapi/generate_scene" THEN <<SceneLine(tc)>>
     ELSE <<ChoicesLine, ChoiceALine(tc), ChoiceBLine(tc)>>)


(***************************************************************************)
(* The direct request: absent, or posted to one of the direct routes.      *)
(***************************************************************************)
\* no direct request is in flight
NoDirectRequest ==
    /\ route = "none"
    /\ req = <<>>
    /\ dpc = "idle"
    /\ reply = None

(***************************************************************************)
(* Initial state: a request has arrived on one of the two webhook routes.  *)
(***************************************************************************)
Init ==
    /\ endpoint \in Endpoints
    /\ body \in Bodies
    /\ pc = "parse"
    /\ idx = 0
    /\ results = <<>>
    /\ response = None
    /\ tasks = <<>>
    /\ files = {}
    /\ uuids = 0
    /\ NoDirectRequest
    /\ stdout \in StdoutModes

(***************************************************************************)
(* Handler steps.                                                          *)
(***************************************************************************)
\* decode, json.loads, VapiRequest(**json_data) and the envelope test: the
\* handler returns one error result, or enters its for loop
Parse ==
    /\ pc = "parse"
    /\ IF EarlyReturn(endpoint, body) # None
         THEN /\ response' = EarlyReturn(endpoint, body)
              /\ pc' = "done"
              /\ UNCHANGED idx
         ELSE /\ pc' = "loop"
              /\ idx' = 1
              /\ UNCHANGED response
    /\ UNCHANGED <<endpoint, body, results, tasks, files, uuids, dvars, stdout>>

\* an entry without function, function name or id: `continue`
SkipInvalid ==
    /\ pc = "loop"
    /\ idx <= Len(ToolCallList)
    /\ InvalidToolCall(ToolCallList[idx])
    /\ idx' = idx + 1
    /\ UNCHANGED <<endpoint, body, pc, results, response, tasks, files, uuids, dvars, stdout>>

\* vapi_generate_scene, `if function_name == "generate_scene"`: one
\* make_image call goes to the thread pool and the handler awaits it
DispatchScene ==
    /\ pc = "loop"
    /\ idx <= Len(ToolCallList)
    /\ ~InvalidToolCall(ToolCallList[idx])
    /\ StdoutWrite(LoopBodyLines(endpoint, ToolCallList[idx])) = None
    /\ FunctionName(ToolCallList[idx]) = HandledTool(endpoint)
    /\ endpoint = "/vapi/generate_scene"
    /\ tasks' = Append(tasks, Task(idx, ScenePrompt(ToolCallList[idx])))
    /\ pc' = "await"
    /\ UNCHANGED <<endpoint, body, idx, results, response, files, uuids, dvars, stdout>>

\* vapi_generate_choices, `if function_name == "generate_choices"`: two
\* make_image calls go to the thread pool and the handler awaits the gather
DispatchChoices ==
    /\ pc = "loop"
    /\ idx <= Len(ToolCallList)
    /\ ~InvalidToolCall(ToolCallList[idx])
    /\ StdoutWrite(LoopBodyLines(endpoint, ToolCallList[idx])) = None
    /\ FunctionName(ToolCallList[idx]) = HandledTool(endpoint)
    /\ endpoint = "/vapi/generate_choices"
    /\ tasks' = tasks \o <<Task(idx, ChoiceAPrompt(ToolCallList[idx])),
                           Task(idx, ChoiceBPrompt(ToolCallList[idx]))>>
    /\ pc' = "await"
    /\ UNCHANGED <<endpoint, body, idx, results, response, files, uuids, dvars, stdout>>

\* the else branch of either handler: a result naming the unknown tool
UnknownTool ==
    /\ pc = "loop"
    /\ idx <= Len(ToolCallList)
    /\ ~InvalidToolCall(ToolCallList[idx])
    /\ StdoutWrite(LoopBodyLines(endpoint, ToolCallList[idx])) = None
    /\ FunctionName(ToolCallList[idx]) # HandledTool(endpoint)
    /\ results' = AppendUnknown(results, ToolCallList[idx])
    /\ idx' = idx + 1
    /\ UNCHANGED <<endpoint, body, pc, response, tasks, files, uuids, dvars, stdout>>

\* a print of the loop body raises UnicodeEncodeError before the entry is
\* acted on: the outermost except returns the error result alone
StdoutRaises ==
    /\ pc = "loop"
    /\ idx <= Len(ToolCallList)
    /\ ~InvalidToolCall(ToolCallList[idx])
    /\ StdoutWrite(LoopBodyLines(endpoint, ToolCallList[idx])) # None
    /\ response' =
          Some(ExceptResponse(endpoint, results,
                  StdoutWrite(LoopBodyLines(endpoint, ToolCallList[idx]))[1]))
    /\ pc' = "done"
    /\ UNCHANGED <<endpoint, body, idx, results, tasks, files, uuids, dvars, stdout>>

\* vapi_generate_scene: the awaited make_image call has returned its URL
SceneReturned ==
    /\ pc = "await"
    /\ endpoint = "/vapi/generate_scene"
    /\ \A k \in 1..Len(TasksOf(idx)) : TasksOf(idx)[k].state = "returned"
    /\ results' = Append(results,
                         VapiResult(ToolCallList[idx].id[1],
                                    SceneResultText(TasksOf(idx)[1].value)))
    /\ idx' = idx + 1
    /\ pc' = "loop"
    /\ UNCHANGED <<endpoint, body, response, tasks, files, uuids, dvars, stdout>>

\* vapi_generate_choices: both gathered calls have returned; gather hands
\* their values back in the order the calls were passed to it
ChoicesReturned ==
    /\ pc = "await"
    /\ endpoint = "/vapi/generate_choices"
    /\ \A k \in 1..Len(TasksOf(idx)) : TasksOf(idx)[k].state = "returned"
    /\ results' = Append(results,
                         VapiResult(ToolCallList[idx].id[1],
                                    ChoicesResultText(ChoiceAText(ToolCallList[idx]),
                                                      TasksOf(idx)[1].value,
                                                      ChoiceBText(ToolCallList[idx]),
                                                      TasksOf(idx)[2].value)))
    /\ idx' = idx + 1
    /\ pc' = "loop"
    /\ UNCHANGED <<endpoint, body, response, tasks, files, uuids, dvars, stdout>>

\* a make_image call of the awaited entry has raised: the await (or the
\* gather, at its first failure) raises into the handler, whose outermost
\* except returns the error result; sibling calls keep running
ServerError ==
    /\ pc = "await"
    /\ \E k \in 1..Len(TasksOf(idx)) :
          /\ TasksOf(idx)[k].state = "raised"
          /\ response' = Some(ExceptResponse(endpoint, results, TasksOf(idx)[k].value))
    /\ pc' = "done"
    /\ UNCHANGED <<endpoint, body, idx, results, tasks, files, uuids, dvars, stdout>>

\* the for loop is exhausted: `return VapiResponse(results=results)`; the
\* server then encodes the response, and answers 500 when it cannot
Assemble ==
    /\ pc = "loop"
    /\ idx > Len(ToolCallList)
    /\ response' = IF ResultsEncodable(results)
                     THEN Some(VapiResponse(results))
                     ELSE Some(InternalServerError)
    /\ pc' = "done"
    /\ UNCHANGED <<endpoint, body, idx, results, tasks, files, uuids, dvars, stdout>>

(***************************************************************************)
(* Worker threads: make_image.                                             *)
(***************************************************************************)
\* the provider answers, the image is decoded and a fresh name is drawn
\* (lines 126-134); nothing is written yet
MakeImageDraws(t) ==
    /\ tasks[t].state = "running"
    /\ uuids' = uuids + 1
    /\ tasks' = [tasks EXCEPT ![t].state = "drawn",
                              ![t].filename = Filename(uuids + 1)]
    /\ UNCHANGED <<endpoint, body, pc, idx, results, response, files, dvars, stdout>>

\* img.save(path) writes the file (line 135); the call has not returned yet
MakeImageSaves(t) ==
    /\ tasks[t].state = "drawn"
    /\ files' = files \cup {StoragePath(tasks[t].filename)}
    /\ tasks' = [tasks EXCEPT ![t].state = "saved"]
    /\ UNCHANGED <<endpoint, body, pc, idx, results, response, uuids, dvars, stdout>>

\* the call returns the URL of the file it has written (line 136)
MakeImageReturns(t) ==
    /\ tasks[t].state = "saved"
    /\ tasks' = [tasks EXCEPT ![t].state = "returned",
                              ![t].value = StaticUrl(tasks[t].filename)]
    /\ UNCHANGED <<endpoint, body, pc, idx, results, response, files, uuids, dvars,
                   stdout>>

\* the try block raises and the except clause raises HTTPException(500):
\* the provider call or the decoding, before a name is drawn, or the save,
\* after the draw; no file is left and a drawn name stays drawn
MakeImageRaises(t) ==
    /\ tasks[t].state \in {"running", "drawn"}
    /\ tasks' = [tasks EXCEPT
                    ![t].state = "raised",
                    ![t].value = IF tasks[t].state = "running"
                                   THEN MakeImageError(ProviderError)
                                   ELSE MakeImageError(SaveError(StoragePath(tasks[t].filename)))]
    /\ UNCHANGED <<endpoint, body, pc, idx, results, response, files, uuids, dvars, stdout>>

MakeImageDraw == \E t \in 1..Len(tasks) : MakeImageDraws(t)
MakeImageSave == \E t \in 1..Len(tasks) : MakeImageSaves(t)
MakeImageReturn == \E t \in 1..Len(tasks) : MakeImageReturns(t)
MakeImageRaise == \E t \in 1..Len(tasks) : MakeImageRaises(t)

Next ==
    \/ Parse
    \/ SkipInvalid
    \/ DispatchScene
    \/ DispatchChoices
    \/ UnknownTool
    \/ StdoutRaises
    \/ SceneReturned
    \/ ChoicesReturned
    \/ ServerError
    \/ Assemble
    \/ MakeImageDraw
    \/ MakeImageSave
    \/ MakeImageReturn
    \/ MakeImageRaise

Spec == Init /\ [][Next]_vars

(***************************************************************************)
(* The direct endpoints: /api/generate_scene, /api/generate_choices, the   *)
(* legacy /generate_scene, and /health.  One direct request is followed    *)
(* next to the webhook request; both share the event loop, the thread pool *)
(* and the static directory.  FastAPI has validated the body against the   *)
(* request model before the handler starts.                                *)
(***************************************************************************)
Routes == {"/api/generate_scene", "/api/generate_choices", "/generate_scene", "/health"}

Prompts == {"a misty castle", "a dark cave"}

\* besides plain prompts, one body per model with a lone surrogate in a field
\* the handler prints, and one with a lone surrogate in a field it does not
GenerateSceneReq == [scene_prompt : Prompts \cup {"<U+D800>"}]
GenerateChoicesReq ==
    [choice_a_prompt : {"a misty castle"}, choice_b_prompt : Prompts,
     choice_a_text : {"Enter the cave"}, choice_b_text : {"Cross the river"}]
    \cup {[choice_a_prompt |-> "a misty castle", choice_b_prompt |-> "<U+D800>",
            choice_a_text |-> "Enter the cave", choice_b_text |-> "Cross the river"],
           [choice_a_prompt |-> "a misty castle", choice_b_prompt |-> "a dark cave",
            choice_a_text |-> "<U+D800>", choice_b_text |-> "Cross the river"]}
SceneReq ==
    [scene_prompt : {"a misty castle"}, option_a : {"a dark cave"},
     option_b : {"a wide river"}]
    \cup {[scene_prompt |-> "a misty castle", option_a |-> "<U+D800>",
            option_b |-> "a wide river"]}

\* the bodies a route accepts; /health is a GET without a body
RequestsOf(rt) ==
    CASE rt = "/api/generate_scene" -> GenerateSceneReq
      [] rt = "/api/generate_choices" -> GenerateChoicesReq
      [] rt = "/generate_scene" -> SceneReq
      [] OTHER -> {<<>>}

\* faulty variant of DirectPrompts: the first prompt is submitted a second time
DirectPrompts_Again(rt, rq) ==
    CASE rt = "/api/generate_scene" -> <<rq.scene_prompt, rq.scene_prompt>>
      [] rt = "/api/generate_choices" ->
            <<rq.choice_a_prompt, rq.choice_b_prompt, rq.choice_a_prompt>>
      [] rt = "/generate_scene" ->
            <<rq.scene_prompt, rq.option_a, rq.option_b, rq.scene_prompt>>
      [] OTHER -> <<>>
\* the prompts a handler passes to run_in_executor(None, make_image, ...), in
\* the order of its arguments to the await or to asyncio.gather
DirectPrompts(rt, rq) ==
    CASE rt = "/api/generate_scene" -> <<rq.scene_prompt>>
      [] rt = "/api/generate_choices" -> <<rq.choice_a_prompt, rq.choice_b_prompt>>
      [] rt = "/generate_scene" -> <<rq.scene_prompt, rq.option_a, rq.option_b>>
      [] OTHER -> <<>>

\* the make_image calls of the direct request (entry 0: not a tool-call entry)
DirectCalls == SelectSeq(tasks, LAMBDA t : t.entry = 0)

\* faulty variants of GatherState: waiting for every call before raising,
\* and returning as soon as one call has returned
GatherState_WaitAll(ts) ==
    IF \E k \in 1..Len(ts) : ts[k].state \in {"running", "drawn", "saved"} THEN "pending"
    ELSE IF \E k \in 1..Len(ts) : ts[k].state = "raised" THEN "raised"
    ELSE "returned"
GatherState_FirstReturned(ts) ==
    IF \E k \in 1..Len(ts) : ts[k].state = "raised" THEN "raised"
    ELSE IF \E k \in 1..Len(ts) : ts[k].state = "returned" THEN "returned"
    ELSE "pending"
\* what `await asyncio.gather(f1, ..., fn)` (or the await of one future) does
\* with the awaiting handler: raise as soon as one future has raised, return
\* once all have returned, suspend otherwise
GatherState(ts) ==
    IF \E k \in 1..Len(ts) : ts[k].state = "raised" THEN "raised"
    ELSE IF \A k \in 1..Len(ts) : ts[k].state = "returned" THEN "returned"
    ELSE "pending"

\* faulty variant of GatherValues: the values in reverse order
GatherValues_Reversed(ts) == [k \in 1..Len(ts) |-> ts[Len(ts) + 1 - k].value]
\* the list gather returns: the values of the futures in the order they were
\* passed to it
GatherValues(ts) == [k \in 1..Len(ts) |-> ts[k].value]

\* a JSON response
JSONResponse(status, content) == [status_code |-> status, content |-> content]
\* a plain text response
PlainTextResponse(status, text) == [status_code |-> status, content |-> [text |-> text]]

\* the dict api_generate_scene returns
ApiSceneResult(rq, urls) ==
    [type |-> "scene", sceneURL |-> urls[1], scene_prompt |-> rq.scene_prompt]
\* the dict api_generate_choices returns
ApiChoicesResult(rq, urls) ==
    [type |-> "choices",
     choices |-> <<[label |-> "A", text |-> rq.choice_a_text,
                    url |-> urls[1], prompt |-> rq.choice_a_prompt],
                   [label |-> "B", text |-> rq.choice_b_text,
                    url |-> urls[2], prompt |-> rq.choice_b_prompt]>>]
\* the dict the legacy generate_scene returns
LegacyResult(rq, urls) ==
    [sceneURL |-> urls[1],
     options |-> <<[label |-> "A", url |-> urls[2], prompt |-> rq.option_a],
                   [label |-> "B", url |-> urls[3], prompt |-> rq.option_b]>>]
\* the dict health_check returns
HealthResult == [status |-> "healthy", message |-> "Voice Adventure API is running!"]

\* the strings of the request that the returned dict holds
ResultStrings(rt, rq) ==
    CASE rt = "/api/generate_scene" -> {rq.scene_prompt}
      [] rt = "/api/generate_choices" ->
            {rq.choice_a_text, rq.choice_a_prompt, rq.choice_b_text, rq.choice_b_prompt}
      [] rt = "/generate_scene" -> {rq.option_a, rq.option_b}

\* the response to a dict a direct handler has returned: the dict as JSON, or
\* the server's plain text 500 when the dict cannot be encoded as UTF-8
DirectResult(rt, rq, urls) ==
    IF \E x \in ResultStrings(rt, rq) : ~Encodable(x)
      THEN PlainTextResponse(HTTP_500_INTERNAL_SERVER_ERROR, "Internal Server Error")
    ELSE
    CASE rt = "/api/generate_scene" -> JSONResponse(HTTP_200_OK, ApiSceneResult(rq, urls))
      [] rt = "/api/generate_choices" -> JSONResponse(HTTP_200_OK, ApiChoicesResult(rq, urls))
      [] rt = "/generate_scene" -> JSONResponse(HTTP_200_OK, LegacyResult(rq, urls))

\* the lines a direct handler prints before it submits its calls (lines
\* 149-150, 171-173, 211-214)
DirectLines(rt, rq) ==
    CASE rt = "/api/generate_scene" ->
            <<<<Emoji("\\U0001f3a8", 1), Lit(31)>>,
              <<Lit(9), Val(rq.scene_prompt)>>>>
      [] rt = "/api/generate_choices" ->
            <<<<Emoji("\\U0001f3a8", 1), Lit(26)>>,
              <<Lit(12), Val(rq.choice_a_prompt)>>,
              <<Lit(12), Val(rq.choice_b_prompt)>>>>
      [] rt = "/generate_scene" ->
            <<<<Emoji("\\U0001f3a8", 1), Lit(36)>>,
              <<Lit(9), Val(rq.scene_prompt)>>,
              <<Lit(12), Val(rq.option_a)>>, <<Lit(12), Val(rq.option_b)>>>>
      [] OTHER -> <<>>

\* the print of the except clause of a direct handler (lines 163, 204, 236)
DirectErrorLine(rt) ==
    <<Emoji("\\u274c", 1),
      Lit(CASE rt = "/api/generate_scene" -> 30
            [] rt = "/api/generate_choices" -> 32
            [] OTHER -> 33)>>

\* faulty variant of DirectError: a success response with the URLs of the
\* calls that have returned
DirectError_Partial(e) ==
    JSONResponse(HTTP_200_OK,
                 [urls |-> GatherValues(SelectSeq(DirectCalls,
                                                  LAMBDA t : t.state = "returned"))])
\* `raise HTTPException(status_code=500, detail=str(e))`
DirectError(e) == JSONResponse(HTTP_500_INTERNAL_SERVER_ERROR, [detail |-> e])

\* the whole except clause of a direct handler: it prints the error and
\* raises the HTTPException; when its own print raises, the exception
\* leaves the handler and the server answers with its plain text 500
DirectExcept(rt, e) ==
    IF StdoutWrite(<<DirectErrorLine(rt)>>) # None
      THEN PlainTextResponse(HTTP_500_INTERNAL_SERVER_ERROR, "Internal Server Error")
      ELSE DirectError(e)

\* a make_image call occupies the event loop while it runs on its thread
BlocksLoop(t) == t.thread = "loop"

\* the event loop can run a handler step: no call in progress occupies it
LoopIsFree ==
    \A t \in 1..Len(tasks) :
        tasks[t].state \in {"running", "drawn", "saved"} => ~BlocksLoop(tasks[t])

\* the handler submits its make_image calls and awaits them
DirectDispatch ==
    /\ dpc = "start"
    /\ route # "/health"
    /\ LoopIsFree
    /\ StdoutWrite(DirectLines(route, req)) = None
    /\ tasks' = tasks \o [k \in 1..Len(DirectPrompts(route, req)) |->
                             Task(0, DirectPrompts(route, req)[k])]
    /\ dpc' = "await"
    /\ UNCHANGED <<endpoint, body, pc, idx, results, response, files, uuids,
                   route, req, reply, stdout>>

\* a print before the calls raises UnicodeEncodeError: the handler's except
\* re-raises it as an HTTPException(500) and no call is submitted
DirectStdoutRaises ==
    /\ dpc = "start"
    /\ route # "/health"
    /\ LoopIsFree
    /\ StdoutWrite(DirectLines(route, req)) # None
    /\ reply' = Some(DirectExcept(route, StdoutWrite(DirectLines(route, req))[1]))
    /\ dpc' = "done"
    /\ UNCHANGED <<endpoint, body, pc, idx, results, response, tasks, files, uuids,
                   route, req, stdout>>

\* every awaited call has returned: the handler returns its dict
DirectReturned ==
    /\ dpc = "await"
    /\ LoopIsFree
    /\ GatherState(DirectCalls) = "returned"
    /\ reply' = Some(DirectResult(route, req, GatherValues(DirectCalls)))
    /\ dpc' = "done"
    /\ UNCHANGED <<endpoint, body, pc, idx, results, response, tasks, files, uuids,
                   route, req, stdout>>

\* faulty variant of DirectFailed: the failing request takes back the images
\* its calls have stored so far
DirectFailed_Cleanup ==
    /\ dpc = "await"
    /\ LoopIsFree
    /\ GatherState(DirectCalls) = "raised"
    /\ \E k \in 1..Len(DirectCalls) :
          /\ DirectCalls[k].state = "raised"
          /\ reply' = Some(DirectExcept(route, DirectCalls[k].value))
    /\ dpc' = "done"
    /\ files' = files \ {StoragePath(DirectCalls[k].filename) :
                            k \in {j \in 1..Len(DirectCalls) :
                                       DirectCalls[j].state \in {"saved", "returned"}}}
    /\ UNCHANGED <<endpoint, body, pc, idx, results, response, tasks, uuids,
                   route, req, stdout>>
\* an awaited call has raised: the handler's except re-raises it as an
\* HTTPException(500); the sibling calls keep running
DirectFailed ==
    /\ dpc = "await"
    /\ LoopIsFree
    /\ GatherState(DirectCalls) = "raised"
    /\ \E k \in 1..Len(DirectCalls) :
          /\ DirectCalls[k].state = "raised"
          /\ reply' = Some(DirectExcept(route, DirectCalls[k].value))
    /\ dpc' = "done"
    /\ UNCHANGED <<endpoint, body, pc, idx, results, response, tasks, files, uuids,
                   route, req, stdout>>

\* GET /health
HealthCheck ==
    /\ dpc = "start"
    /\ route = "/health"
    /\ LoopIsFree
    /\ reply' = Some(JSONResponse(HTTP_200_OK, HealthResult))
    /\ dpc' = "done"
    /\ UNCHANGED <<endpoint, body, pc, idx, results, response, tasks, files, uuids,
                   route, req, stdout>>

\* a direct request has arrived
DirectRequestArrived ==
    /\ route \in Routes
    /\ req \in RequestsOf(route)
    /\ dpc = "start"
    /\ reply = None

\* no webhook request is in flight
NoWebhookRequest ==
    /\ endpoint = "none"
    /\ body = [shape |-> "none", message |-> None]
    /\ pc = "idle"
    /\ idx = 0
    /\ results = <<>>
    /\ response = None

(***************************************************************************)
(* The direct request alone.  The event loop runs every handler step that  *)
(* is ready (weak fairness); nothing makes a provider call end.            *)
(***************************************************************************)
InitDirect ==
    /\ NoWebhookRequest
    /\ DirectRequestArrived
    /\ tasks = <<>>
    /\ files = {}
    /\ uuids = 0
    /\ stdout \in StdoutModes

NextDirect ==
    \/ DirectDispatch
    \/ DirectStdoutRaises
    \/ DirectReturned
    \/ DirectFailed
    \/ HealthCheck
    \/ MakeImageDraw
    \/ MakeImageSave
    \/ MakeImageReturn
    \/ MakeImageRaise

SpecDirect ==
    /\ InitDirect
    /\ [][NextDirect]_vars
    /\ WF_vars(DirectDispatch)
    /\ WF_vars(DirectStdoutRaises)
    /\ WF_vars(DirectReturned)
    /\ WF_vars(DirectFailed)
    /\ WF_vars(HealthCheck)

(***************************************************************************)
(* The server with a webhook request and a direct request in flight at the *)
(* same time.                                                              *)
(***************************************************************************)
ServerToolCalls ==
    { [id |-> Some("call_1"),
       function |-> Some([name |-> Some("generate_scene"),
                          arguments |-> Some([scene_prompt |-> "a misty castle"])])],
      [id |-> Some("call_2"),
       function |-> Some([name |-> Some("generate_choices"),
                          arguments |-> None])],
      [id |-> None,
       function |-> Some([name |-> Some("generate_scene"),
                          arguments |-> None])],
      [id |-> Some("call_1"),
       function |-> Some([name |-> Some("get_<U+D800>"), arguments |-> None])] }

ServerBodies ==
    {[shape |-> "envelope", message |-> Some([toolCallList |-> Some(l)])] :
        l \in UNION {[1..n -> ServerToolCalls] : n \in 1..MaxServerToolCalls}}

\* the direct request beside it, one per route; the three images of the
\* legacy route are requested beside a webhook request for scenes (one image
\* per entry) only
ServerRoutes(ep) ==
    IF ep = "/vapi/generate_scene" THEN Routes ELSE Routes \ {"/generate_scene"}
ServerRequestsOf(rt) ==
    CASE rt = "/api/generate_scene" -> {[scene_prompt |-> "a misty castle"]}
      [] rt = "/api/generate_choices" ->
            {[choice_a_prompt |-> "a misty castle", choice_b_prompt |-> "a dark cave",
              choice_a_text |-> "Enter the cave", choice_b_text |-> "Cross the river"]}
      [] rt = "/generate_scene" -> SceneReq
      [] OTHER -> {<<>>}

InitServer ==
    /\ endpoint \in Endpoints
    /\ body \in ServerBodies
    /\ pc = "parse"
    /\ idx = 0
    /\ results = <<>>
    /\ response = None
    /\ route \in ServerRoutes(endpoint)
    /\ req \in ServerRequestsOf(route)
    /\ dpc = "start"
    /\ reply = None
    /\ tasks = <<>>
    /\ files = {}
    /\ uuids = 0
    /\ stdout \in {"strict", "ascii"}

NextServer ==
    \/ Parse
    \/ SkipInvalid
    \/ DispatchScene
    \/ DispatchChoices
    \/ UnknownTool
    \/ StdoutRaises
    \/ SceneReturned
    \/ ChoicesReturned
    \/ ServerError
    \/ Assemble
    \/ DirectDispatch
    \/ DirectStdoutRaises
    \/ DirectReturned
    \/ DirectFailed
    \/ HealthCheck
    \/ MakeImageDraw
    \/ MakeImageSave
    \/ MakeImageReturn
    \/ MakeImageRaise

SpecServer == InitServer /\ [][NextServer]_vars

(***************************************************************************)
(* The same server when the provider calls of the direct request end.  The *)
(* event loop runs every step of the direct handler that is ready, and the *)
(* thread pool (at least five threads, for at most four calls) runs every  *)
(* call; the calls of the direct request come to an end, those of the      *)
(* webhook request may never do (the provider may hang).                   *)
(***************************************************************************)
\* a step of a make_image call of the direct request
DirectCallStep ==
    \E t \in 1..Len(tasks) :
        /\ tasks[t].entry = 0
        /\ \/ MakeImageDraws(t)
           \/ MakeImageSaves(t)
           \/ MakeImageReturns(t)
           \/ MakeImageRaises(t)

SpecServerFair ==
    /\ InitServer
    /\ [][NextServer]_vars
    /\ WF_vars(DirectDispatch)
    /\ WF_vars(DirectStdoutRaises)
    /\ WF_vars(DirectReturned)
    /\ WF_vars(DirectFailed)
    /\ WF_vars(HealthCheck)
    /\ WF_vars(DirectCallStep)

(***************************************************************************)
(* The same server with a webhook request of several entries: an entry can *)
(* fail after an earlier entry has stored its images.                      *)
(***************************************************************************)
StoreBodies ==
    {[shape |-> "envelope", message |-> Some([toolCallList |-> Some(l)])] :
        l \in [1..MaxStoreToolCalls -> ServerToolCalls]}

InitStore ==
    /\ endpoint \in Endpoints
    /\ body \in StoreBodies
    /\ pc = "parse"
    /\ idx = 0
    /\ results = <<>>
    /\ response = None
    /\ route \in ServerRoutes(endpoint)
    /\ req \in ServerRequestsOf(route)
    /\ dpc = "start"
    /\ reply = None
    /\ tasks = <<>>
    /\ files = {}
    /\ uuids = 0
    /\ stdout \in {"strict", "ascii"}

SpecStore == InitStore /\ [][NextServer]_vars

(***************************************************************************)
(* Vocabulary of the properties, stated on the request and the response    *)
(* alone.                                                                  *)
(***************************************************************************)
\* the handler has returned
Responded == response # None

\* the envelope is valid: a message object with a non-empty tool-call list
ValidEnvelope ==
    IF body.shape # "envelope" THEN FALSE
    ELSE IF body.message = None THEN FALSE
    ELSE IF body.message[1].toolCallList = None THEN FALSE
    ELSE Len(body.message[1].toolCallList[1]) > 0

\* the tool-call entries of a valid envelope
Entries == body.message[1].toolCallList[1]

\* an entry is well-formed: function object, function name and id all present
Present(s) == IF s = <<>> THEN FALSE ELSE s[1] # ""
WellFormed(tc) ==
    IF tc.function = <<>> THEN FALSE
    ELSE Present(tc.function[1].name) /\ Present(tc.id)

WellFormedEntries == {i \in 1..Len(Entries) : WellFormed(Entries[i])}

\* how many of the first i entries are well-formed
Rank(i) == Cardinality({j \in 1..i : WellFormed(Entries[j])})

\* the name of a well-formed entry, and whether the route posted to handles it
NameOf(i) == Entries[i].function[1].name[1]
IdOf(i) == Entries[i].id[1]
Recognized(i) ==
    \/ endpoint = "/vapi/generate_scene" /\ NameOf(i) = "generate_scene"
    \/ endpoint = "/vapi/generate_choices" /\ NameOf(i) = "generate_choices"

\* some provider call of the request has failed
SomeCallFailed == \E t \in 1..Len(tasks) : tasks[t].state = "raised"

\* a string that holds a lone surrogate: it has no UTF-8 encoding
LoneSurrogate(s) == s \in {"<U+D800>", "get_<U+D800>", "call_<U+DC00>"}

\* the strings of a well-formed entry that the handler writes to its log:
\* name and id, and for the tool of the route the arguments it reads
LoggedArguments ==
    IF endpoint = "/vapi/generate_scene" THEN {"scene_prompt"}
    ELSE {"choice_a_prompt", "choice_b_prompt", "choice_a_text", "choice_b_text"}
Logged(i) ==
    {Entries[i].function[1].name[1], Entries[i].id[1]}
    \cup (IF Entries[i].function[1].arguments = <<>> THEN {}
          ELSE IF ~( \/ endpoint = "/vapi/generate_scene"
                          /\ Entries[i].function[1].name[1] = "generate_scene"
                     \/ endpoint = "/vapi/generate_choices"
                          /\ Entries[i].function[1].name[1] = "generate_choices") THEN {}
          ELSE {Entries[i].function[1].arguments[1][a] :
                   a \in LoggedArguments \cap DOMAIN Entries[i].function[1].arguments[1]})

\* the handler has reached an entry whose log lines the standard output
\* cannot encode
LogFailed ==
    IF stdout = "ascii" THEN TRUE
    ELSE IF ~ValidEnvelope THEN FALSE
    ELSE /\ stdout = "strict"
         /\ \E i \in WellFormedEntries :
               i <= idx /\ \E s \in Logged(i) : LoneSurrogate(s)

\* the results the handler has collected cannot be encoded as a response
ResultsNotEncodable ==
    \E k \in 1..Len(results) :
        \/ LoneSurrogate(results[k].toolCallId)
        \/ \E j \in 1..Len(results[k].result) : LoneSurrogate(results[k].result[j])

\* the request went through its whole tool-call list without a failure: no
\* provider call failed, the log was written and the response was encoded
CompletedNormally ==
    /\ Responded
    /\ ValidEnvelope
    /\ ~SomeCallFailed
    /\ ~LogFailed
    /\ ~ResultsNotEncodable

\* a text contains the pieces sub, contiguously
Contains(text, sub) ==
    \E k \in 0..(Len(text) - Len(sub)) : SubSeq(text, k + 1, k + Len(sub)) = sub

\* the response is the uniform error response: one result, sentinel id
UniformError(resp) ==
    /\ resp.status_code = 200
    /\ Len(resp.results) = 1
    /\ resp.results[1].toolCallId = "error"

(***************************************************************************)
(* C1: on both webhook routes, for every body and every outcome of the     *)
(* provider calls, a handler that ends has returned a success-status       *)
(* response carrying a list of results (each a toolCallId with a text);    *)
(* it never ends in an HTTP error response.                                *)
(***************************************************************************)
WebhookAlwaysSuccessStatus ==
    Responded =>
        /\ response[1].status_code = 200
        /\ \A k \in 1..Len(response[1].results) :
              /\ DOMAIN response[1].results[k] = {"toolCallId", "result"}
              /\ response[1].results[k].toolCallId # ""
              /\ Len(response[1].results[k].result) > 0
        /\ (~ValidEnvelope \/ SomeCallFailed) => Len(response[1].results) > 0

(***************************************************************************)
(* C2: for every request with a valid envelope (ids of the well-formed     *)
(* entries pairwise distinct), the returned results hold exactly one       *)
(* result per well-formed entry, carrying that entry's id.                 *)
(***************************************************************************)
DistinctIds ==
    \A i, j \in WellFormedEntries : i # j => IdOf(i) # IdOf(j)

EveryWellFormedEntryAnswered ==
    (Responded /\ ValidEnvelope /\ DistinctIds) =>
        \A i \in WellFormedEntries :
            Cardinality({k \in 1..Len(response[1].results) :
                            response[1].results[k].toolCallId = IdOf(i)}) = 1

(***************************************************************************)
(* C3: a request with two well-formed entries, one named generate_scene    *)
(* and one named generate_choices, whose provider calls all succeed,       *)
(* returns exactly two results; their toolCallIds are the two input ids,   *)
(* entry by entry, each once when the ids differ, and no sentinel result   *)
(* is added.                                                               *)
(***************************************************************************)
SceneAndChoicesRequest ==
    IF ~ValidEnvelope THEN FALSE
    ELSE IF Len(Entries) # 2 THEN FALSE
    ELSE IF WellFormedEntries # {1, 2} THEN FALSE
    ELSE {NameOf(1), NameOf(2)} = {"generate_scene", "generate_choices"}

TwoEntriesTwoResults ==
    (Responded /\ SceneAndChoicesRequest /\ ~SomeCallFailed) =>
        /\ response[1].status_code = 200
        /\ Len(response[1].results) = 2
        /\ \A i \in {1, 2} : response[1].results[i].toolCallId = IdOf(i)
        /\ IdOf(1) # IdOf(2) =>
              \A i \in {1, 2} :
                  Cardinality({k \in 1..2 :
                                  response[1].results[k].toolCallId = IdOf(i)}) = 1
        /\ \A k \in 1..2 :
              response[1].results[k].toolCallId = "error" => IdOf(k) = "error"

(***************************************************************************)
(* More vocabulary: the result and the provider calls of one entry.        *)
(***************************************************************************)
\* the provider calls issued for entry i, in submission order
CallsOf(i) == SelectSeq(tasks, LAMBDA t : t.entry = i)

\* in a request that completed normally, the result of well-formed entry i
ResultOf(i) == response[1].results[Rank(i)]

\* the entries the for loop has finished with
Passed == IF idx = 0 THEN 0 ELSE idx - 1

\* the result the handler has collected for a well-formed entry it has passed
Collected(i) == results[Rank(i)]

\* the arguments of a well-formed entry, {} when absent
ArgsOf(i) ==
    IF Entries[i].function[1].arguments = <<>> THEN <<>>
    ELSE Entries[i].function[1].arguments[1]

(***************************************************************************)
(* C4 as stated: on each webhook route, in a request that completes        *)
(* normally, every well-formed entry named generate_scene has caused       *)
(* exactly one image generation and its result text embeds the returned    *)
(* path, and every well-formed entry named generate_choices has caused     *)
(* exactly two image generations and its result text embeds both labeled   *)
(* paths.                                                                  *)
(***************************************************************************)
SceneRouted(i) ==
    /\ Len(CallsOf(i)) = 1
    /\ ResultOf(i).toolCallId = IdOf(i)
    /\ ResultOf(i).result[1] = "Scene generated successfully! Image URL: "
    /\ Contains(ResultOf(i).result, CallsOf(i)[1].value)

ChoicesRouted(i) ==
    /\ Len(CallsOf(i)) = 2
    /\ ResultOf(i).toolCallId = IdOf(i)
    /\ \E a_text, b_text \in {"Choice A", "Choice B", "Enter the cave", "Cross the river"} :
          /\ ResultOf(i).result[1] = "Choices generated successfully! Choice A ("
          /\ Contains(ResultOf(i).result,
                      <<a_text, "): ">> \o CallsOf(i)[1].value)
          /\ Contains(ResultOf(i).result,
                      <<", Choice B (", b_text, "): ">> \o CallsOf(i)[2].value)

RoutedByNameOnEveryRoute ==
    CompletedNormally =>
        \A i \in WellFormedEntries :
            /\ NameOf(i) = "generate_scene" => SceneRouted(i)
            /\ NameOf(i) = "generate_choices" => ChoicesRouted(i)

(***************************************************************************)
(* C4 amended: each route handles one tool.  On /vapi/generate_scene an    *)
(* entry named generate_scene causes exactly one image generation once the *)
(* handler dispatches it, and once the handler has passed it the handler   *)
(* has collected for it a result with its id whose text embeds the path    *)
(* the call returned; on /vapi/generate_choices an entry named             *)
(* generate_choices causes exactly two image generations (choice A, then   *)
(* choice B) and is collected as a single result embedding both labeled    *)
(* paths; on either route an entry with the other route's tool name causes *)
(* no image generation and is collected as the unknown-tool result.  An    *)
(* entry the handler has not reached, or at which a log line could not be  *)
(* written, has caused no image generation.  The response is the collected *)
(* results when the handler got through its whole list and they can be     *)
(* encoded; it is HTTP 500 when they cannot, or when the standard output   *)
(* cannot encode the log messages; and it is the sentinel result alone     *)
(* when the request failed at an entry (a provider call raised or a log    *)
(* line could not be written).                                             *)
(***************************************************************************)
\* the handler has submitted the provider calls of entry i
Dispatched(i) == i < idx \/ (i = idx /\ pc # "loop" /\ ~LogFailed)

SceneCollected(i) ==
    /\ CallsOf(i)[1].state = "returned"
    /\ Collected(i).toolCallId = IdOf(i)
    /\ Collected(i).result[1] = "Scene generated successfully! Image URL: "
    /\ Contains(Collected(i).result, CallsOf(i)[1].value)

ChoicesCollected(i) ==
    /\ CallsOf(i)[1].state = "returned"
    /\ CallsOf(i)[2].state = "returned"
    /\ Collected(i).toolCallId = IdOf(i)
    /\ \E a_text, b_text \in {"Choice A", "Choice B", "Enter the cave", "Cross the river",
                               "<U+D800>"} :
          /\ Collected(i).result[1] = "Choices generated successfully! Choice A ("
          /\ Contains(Collected(i).result,
                      <<a_text, "): ">> \o CallsOf(i)[1].value)
          /\ Contains(Collected(i).result,
                      <<", Choice B (", b_text, "): ">> \o CallsOf(i)[2].value)

\* the response of a request with a valid envelope, case by case
ResponseByOutcome ==
    IF stdout = "ascii" THEN response[1].status_code = 500
    ELSE IF Passed < Len(Entries) THEN UniformError(response[1])
    ELSE IF ResultsNotEncodable THEN response[1].status_code = 500
    ELSE /\ response[1].status_code = 200
         /\ response[1].results = results

RoutedByNameOnOwnRoute ==
    ValidEnvelope =>
        /\ \A i \in WellFormedEntries :
              /\ (endpoint = "/vapi/generate_scene" /\ NameOf(i) = "generate_scene") =>
                    /\ Len(CallsOf(i)) = IF Dispatched(i) THEN 1 ELSE 0
                    /\ i <= Passed => SceneCollected(i)
              /\ (endpoint = "/vapi/generate_choices" /\ NameOf(i) = "generate_choices") =>
                    /\ Len(CallsOf(i)) = IF Dispatched(i) THEN 2 ELSE 0
                    /\ i <= Passed => ChoicesCollected(i)
              /\ (NameOf(i) \in {"generate_scene", "generate_choices"} /\ ~Recognized(i)) =>
                    /\ Len(CallsOf(i)) = 0
                    /\ i <= Passed =>
                          Collected(i) = [toolCallId |-> IdOf(i),
                                          result |-> <<"Unknown tool: ", NameOf(i)>>]
        /\ Responded => ResponseByOutcome

\* both routings have happened: a choices entry answered on the choices
\* route next to a scene entry that the route does not handle
WitnessRoutedOnOwnRoute ==
    /\ CompletedNormally
    /\ endpoint = "/vapi/generate_choices"
    /\ Len(Entries) = 2
    /\ WellFormedEntries = {1, 2}
    /\ NameOf(1) = "generate_scene"
    /\ NameOf(2) = "generate_choices"
    /\ Len(CallsOf(1)) = 0
    /\ Len(CallsOf(2)) = 2

(***************************************************************************)
(* C5: when a provider call of a request has failed, the response of the   *)
(* request is the uniform error response: success status and exactly one   *)
(* result, whose toolCallId is the sentinel "error" and whose text reports *)
(* the server error.                                                       *)
(***************************************************************************)
ProviderFailureGivesUniformError ==
    (Responded /\ SomeCallFailed) =>
        /\ UniformError(response[1])
        /\ response[1].results[1].result[1] = "Server error: "

\* the failure came after an earlier entry had already produced its result
WitnessProviderFailureAfterResult ==
    /\ Responded
    /\ SomeCallFailed
    /\ Len(results) > 0
    /\ Len(response[1].results) = 1

(***************************************************************************)
(* C6: a request whose body is not valid JSON, or does not validate as the *)
(* envelope, or has no message, or has a missing or empty tool-call list,  *)
(* issues no provider call and creates no file, and its response is        *)
(* exactly one result whose toolCallId is "error".                         *)
(***************************************************************************)
InvalidRequestErrorOnly ==
    ~ValidEnvelope =>
        /\ tasks = <<>>
        /\ files = {}
        /\ Responded => UniformError(response[1])

(***************************************************************************)
(* C7: a result whose toolCallId is the sentinel "error" is present in a   *)
(* response only when the request failed (parse, envelope or internal      *)
(* failure), never as the result of an entry that was processed normally.  *)
(***************************************************************************)
RequestFailed == ~ValidEnvelope \/ SomeCallFailed \/ LogFailed

SentinelOnlyOnFailure ==
    Responded =>
        \A k \in 1..Len(response[1].results) :
            response[1].results[k].toolCallId = "error" => RequestFailed

(***************************************************************************)
(* C8: an entry that lacks its id, its function object or its function     *)
(* name is skipped.  No provider call is ever issued for it and it adds no *)
(* result: the results the handler has collected are, in order, exactly    *)
(* those of the well-formed entries its loop has passed, so the entries    *)
(* after a skipped one are still processed; a request that completes       *)
(* normally returns exactly the results of its well-formed entries.        *)
(***************************************************************************)
MalformedEntriesSkipped ==
    ValidEnvelope =>
        /\ \A i \in 1..Len(Entries) :
              ~WellFormed(Entries[i]) => Len(CallsOf(i)) = 0
        /\ Len(results) = Rank(Passed)
        /\ \A i \in 1..Passed :
              WellFormed(Entries[i]) => Collected(i).toolCallId = IdOf(i)
        /\ CompletedNormally =>
              /\ Passed = Len(Entries)
              /\ response[1].results = results

\* an entry with an empty id was skipped and the entry after it was answered
WitnessSkippedThenAnswered ==
    /\ CompletedNormally
    /\ Len(Entries) = 2
    /\ Entries[1].id = <<"">>
    /\ Entries[1].function # <<>>
    /\ WellFormedEntries = {2}
    /\ Len(CallsOf(2)) > 0
    /\ Len(response[1].results) = 1
    /\ response[1].results[1].toolCallId = IdOf(2)

(***************************************************************************)
(* C9: a well-formed entry whose function name the route does not handle   *)
(* causes no provider call (hence no file); once the loop has passed it,   *)
(* the handler holds exactly one result for it, carrying its own id and    *)
(* the text naming the unknown tool, and a request that completes normally *)
(* returns that result; a request made only of such entries always         *)
(* completes normally, without creating a file.                            *)
(***************************************************************************)
UnknownEntries == {i \in WellFormedEntries : ~Recognized(i)}

UnknownResult(i) ==
    [toolCallId |-> IdOf(i), result |-> <<"Unknown tool: ", NameOf(i)>>]

UnknownToolAnswered ==
    ValidEnvelope =>
        /\ \A i \in UnknownEntries :
              /\ Len(CallsOf(i)) = 0
              /\ i <= Passed =>
                    /\ Collected(i) = UnknownResult(i)
                    /\ Cardinality({j \in WellFormedEntries : Rank(j) = Rank(i)}) = 1
              /\ CompletedNormally => ResultOf(i) = UnknownResult(i)
        /\ (UnknownEntries = WellFormedEntries) =>
              /\ files = {}
              /\ Responded =>
                    /\ response[1].status_code = 200
                    /\ Len(response[1].results) = Cardinality(WellFormedEntries)
                    /\ \A i \in UnknownEntries : ResultOf(i) = UnknownResult(i)

(***************************************************************************)
(* C10: a well-formed entry with a recognized name whose arguments are     *)
(* absent or lack an optional argument is processed with the declared      *)
(* default of each missing argument: the provider calls carry the default  *)
(* prompts, and once they have returned the entry has its normal result,   *)
(* with the default texts in it, which a request that completes normally   *)
(* returns.                                                                *)
(***************************************************************************)
Lacks(i, key) == key \notin DOMAIN ArgsOf(i)

\* the normal result of a recognized entry, defaults included
NormalResult(i, r) ==
    /\ r.toolCallId = IdOf(i)
    /\ endpoint = "/vapi/generate_scene" =>
          r.result = <<"Scene generated successfully! Image URL: ">>
                     \o CallsOf(i)[1].value
    /\ endpoint = "/vapi/generate_choices" =>
          /\ r.result[1] = "Choices generated successfully! Choice A ("
          /\ Lacks(i, "choice_a_text") =>
                Contains(r.result, <<"Choice A", "): ">> \o CallsOf(i)[1].value)
          /\ Lacks(i, "choice_b_text") =>
                Contains(r.result,
                         <<", Choice B (", "Choice B", "): ">> \o CallsOf(i)[2].value)

MissingArgumentsDefaulted ==
    ValidEnvelope =>
        \A i \in WellFormedEntries \ UnknownEntries :
            /\ (endpoint = "/vapi/generate_scene" /\ Len(CallsOf(i)) > 0
                  /\ Lacks(i, "scene_prompt")) =>
                      CallsOf(i)[1].prompt = "A mysterious adventure scene..."
            /\ (endpoint = "/vapi/generate_choices" /\ Len(CallsOf(i)) > 0) =>
                  /\ Lacks(i, "choice_a_prompt") => CallsOf(i)[1].prompt = "Option A"
                  /\ Lacks(i, "choice_b_prompt") => CallsOf(i)[2].prompt = "Option B"
            /\ i <= Passed =>
                  /\ \A k \in 1..Len(CallsOf(i)) : CallsOf(i)[k].state = "returned"
                  /\ NormalResult(i, Collected(i))
            /\ CompletedNormally => NormalResult(i, ResultOf(i))

\* a generate_choices entry without arguments was answered from the defaults
WitnessDefaultsUsed ==
    /\ CompletedNormally
    /\ endpoint = "/vapi/generate_choices"
    /\ 1 \in WellFormedEntries
    /\ NameOf(1) = "generate_choices"
    /\ Entries[1].function[1].arguments = <<>>
    /\ Len(CallsOf(1)) = 2
    /\ CallsOf(1)[1].prompt = "Option A"
    /\ CallsOf(1)[2].prompt = "Option B"
    /\ Contains(response[1].results[1].result, <<"Choice A", "): ">>)

(***************************************************************************)
(* Vocabulary of the properties of the direct request and of the image     *)
(* store.                                                                  *)
(***************************************************************************)
\* the direct handler has ended
DirectResponded == reply # None

\* the provider calls of the direct request, in submission order
IssuedByDirect == SelectSeq(tasks, LAMBDA t : t.entry = 0)

\* how many provider calls the route fans out to
FanOut ==
    CASE route = "/api/generate_scene" -> 1
      [] route = "/api/generate_choices" -> 2
      [] route = "/generate_scene" -> 3
      [] OTHER -> 0

DirectCallFailed == \E k \in 1..Len(IssuedByDirect) : IssuedByDirect[k].state = "raised"
\* a call of the direct request has neither returned nor failed yet
DirectCallRunning ==
    \E k \in 1..Len(IssuedByDirect) :
        IssuedByDirect[k].state \in {"running", "drawn", "saved"}

\* the direct response is a success response / an HTTP error with a detail only
DirectSuccess == IF reply = <<>> THEN FALSE ELSE reply[1].status_code = 200
DirectHTTPError ==
    IF reply = <<>> THEN FALSE
    ELSE /\ reply[1].status_code = 500
         /\ DOMAIN reply[1].content = {"detail"}

\* the image URLs of a successful direct response, in the order of its shape
ReplyUrls ==
    CASE route = "/api/generate_scene" -> <<reply[1].content.sceneURL>>
      [] route = "/api/generate_choices" ->
            <<reply[1].content.choices[1].url, reply[1].content.choices[2].url>>
      [] route = "/generate_scene" ->
            <<reply[1].content.sceneURL,
              reply[1].content.options[1].url, reply[1].content.options[2].url>>
      [] OTHER -> <<>>

\* a URL /static/<name> is served from the file static/<name>
IsUrl(u) == IF Len(u) # 3 THEN FALSE ELSE u[1] = "/static/"
Stored(u) == IsUrl(u) /\ <<"static/", u[2], u[3]>> \in files

\* the calls that have returned, as positions in tasks
Returned == {t \in 1..Len(tasks) : tasks[t].state = "returned"}

\* the calls that have written their image, returned already or not, and
\* the file and the URL of such a call
Written == {t \in 1..Len(tasks) : tasks[t].state \in {"saved", "returned"}}
FileWrittenBy(t) == <<"static/">> \o tasks[t].filename
UrlWrittenBy(t) == <<"/static/">> \o tasks[t].filename

\* the direct response carries no image URL: an error detail or a plain text
DirectNoUrl ==
    IF reply = <<>> THEN FALSE
    ELSE /\ reply[1].status_code = 500
         /\ DOMAIN reply[1].content \in {{"detail"}, {"text"}}
         /\ DOMAIN reply[1].content = {"detail"} =>
               \A j \in 1..Len(reply[1].content.detail) :
                   reply[1].content.detail[j] # "/static/"

(***************************************************************************)
(* C11: a direct request that fans out to several provider calls (two on   *)
(* /api/generate_choices, three on the legacy /generate_scene) has no      *)
(* partial success: when any of its calls failed its response is an HTTP   *)
(* error that carries a detail and no URL; and every response is either a  *)
(* success carrying the URL of every one of its calls, all returned, or an *)
(* error response without any URL.                                         *)
(***************************************************************************)
NoPartialSuccess ==
    (DirectResponded /\ FanOut > 1) =>
        /\ DirectCallFailed => DirectHTTPError
        /\ IF DirectSuccess
             THEN /\ Len(IssuedByDirect) = FanOut
                  /\ \A k \in 1..FanOut : IssuedByDirect[k].state = "returned"
                  /\ Len(ReplyUrls) = FanOut
                  /\ \A k \in 1..FanOut : ReplyUrls[k] = IssuedByDirect[k].value
             ELSE DirectNoUrl

\* a fan-out ended in failure although a sibling call returned its URL
WitnessFailureDespiteSibling ==
    /\ DirectResponded
    /\ FanOut > 1
    /\ DirectHTTPError
    /\ \E k \in 1..Len(IssuedByDirect) : IssuedByDirect[k].state = "returned"

(***************************************************************************)
(* C12: every image path in a successful response, of a direct endpoint or *)
(* in a webhook result text, names a file that is in the static directory  *)
(* from the moment the response is returned.                               *)
(***************************************************************************)
ReturnedPathsExist ==
    /\ (DirectSuccess /\ FanOut > 0) =>
          \A k \in 1..Len(ReplyUrls) : Stored(ReplyUrls[k])
    /\ Responded =>
          \A k \in 1..Len(response[1].results) :
              \A j \in 1..Len(response[1].results[k].result) :
                  response[1].results[k].result[j] = "/static/" =>
                      /\ j + 2 <= Len(response[1].results[k].result)
                      /\ <<"static/", response[1].results[k].result[j + 1],
                           response[1].results[k].result[j + 2]>> \in files

\* both kinds of response carry a path
WitnessPathsReturned ==
    /\ DirectSuccess
    /\ route = "/api/generate_scene"
    /\ Stored(reply[1].content.sceneURL)
    /\ Responded
    /\ \E k \in 1..Len(response[1].results) :
          \E j \in 1..Len(response[1].results[k].result) :
              response[1].results[k].result[j] = "/static/"

(***************************************************************************)
(* C13: the image store is append-only under any interleaving of the       *)
(* requests.  No step removes a file; each successful make_image call adds *)
(* exactly one file, at the step that writes its image, under a name no    *)
(* file had before, also when its prompt repeats an earlier one, and no    *)
(* other step adds a file; so the successful calls have pairwise distinct  *)
(* stored files, and the two URLs of a successful choices request are      *)
(* distinct and both stored.                                               *)
(***************************************************************************)
OneFilePerCall ==
    /\ \A t \in Written : FileWrittenBy(t) \in files
    /\ \A t \in Returned : tasks[t].value = UrlWrittenBy(t)
    /\ \A t, u \in Written : t # u => FileWrittenBy(t) # FileWrittenBy(u)
    /\ (DirectSuccess /\ route = "/api/generate_choices") =>
          /\ ReplyUrls[1] # ReplyUrls[2]
          /\ Stored(ReplyUrls[1])
          /\ Stored(ReplyUrls[2])

StoreGrowsByOne ==
    /\ files \subseteq files'
    /\ Written \subseteq Written'
    /\ Cardinality(files' \ files) = Cardinality(Written' \ Written)
    /\ Cardinality(files' \ files) <= 1

StoreAppendOnly == []OneFilePerCall /\ [][StoreGrowsByOne]_vars

\* the two requests each generated an image from the same prompt
WitnessRepeatedPrompt ==
    \E t, u \in Returned :
        /\ tasks[t].entry = 0
        /\ tasks[u].entry > 0
        /\ tasks[t].prompt = tasks[u].prompt
        /\ tasks[t].value # tasks[u].value
        /\ Stored(tasks[t].value)
        /\ Stored(tasks[u].value)

(***************************************************************************)
(* C14: the results of a fan-out are matched to their calls by submission  *)
(* order, whatever order the calls complete in: choice A (the scene, the   *)
(* options) of a response always carries the URL of the call that was      *)
(* given its prompt, on the direct endpoints and in the webhook text.      *)
(***************************************************************************)
\* the k-th call of the direct request was given prompt p and returned u
GeneratedFrom(k, p, u) ==
    /\ Len(IssuedByDirect) >= k
    /\ IssuedByDirect[k].prompt = p
    /\ IssuedByDirect[k].state = "returned"
    /\ IssuedByDirect[k].value = u

ResultsInSubmissionOrder ==
    /\ (DirectSuccess /\ route = "/api/generate_choices") =>
          /\ reply[1].content.choices[1].label = "A"
          /\ reply[1].content.choices[1].prompt = req.choice_a_prompt
          /\ GeneratedFrom(1, req.choice_a_prompt, reply[1].content.choices[1].url)
          /\ reply[1].content.choices[2].label = "B"
          /\ reply[1].content.choices[2].prompt = req.choice_b_prompt
          /\ GeneratedFrom(2, req.choice_b_prompt, reply[1].content.choices[2].url)
    /\ (DirectSuccess /\ route = "/generate_scene") =>
          /\ GeneratedFrom(1, req.scene_prompt, reply[1].content.sceneURL)
          /\ reply[1].content.options[1].prompt = req.option_a
          /\ GeneratedFrom(2, req.option_a, reply[1].content.options[1].url)
          /\ reply[1].content.options[2].prompt = req.option_b
          /\ GeneratedFrom(3, req.option_b, reply[1].content.options[2].url)
    /\ (Responded /\ ValidEnvelope /\ endpoint = "/vapi/generate_choices") =>
          \A k \in 1..Len(response[1].results) :
              response[1].results[k].result[1] = "Choices generated successfully! Choice A (" =>
                  \E i \in 1..Len(Entries) :
                      /\ Len(CallsOf(i)) = 2
                      /\ <<response[1].results[k].result[4],
                           response[1].results[k].result[5],
                           response[1].results[k].result[6]>> = CallsOf(i)[1].value
                      /\ response[1].results[k].result[7] = ", Choice B ("
                      /\ <<response[1].results[k].result[10],
                           response[1].results[k].result[11],
                           response[1].results[k].result[12]>> = CallsOf(i)[2].value

\* call B of a successful choices request wrote the first image of the store,
\* so it completed before call A
WitnessCompletedOutOfOrder ==
    /\ DirectSuccess
    /\ route = "/api/generate_choices"
    /\ IssuedByDirect[2].value = <<"/static/", "1", ".png">>
    /\ IssuedByDirect[1].state = "returned"

(***************************************************************************)
(* C15: a fan-out fails fast.  As soon as one of its calls has failed the  *)
(* handler can end in failure without waiting for the siblings; a sibling  *)
(* that is still running is not cancelled: it can still draw its file      *)
(* name, having drawn it store its image, and having stored it return; and *)
(* what the siblings return is discarded: the response of the failed       *)
(* request is the error alone.                                             *)
(***************************************************************************)
WebhookCallFailed ==
    \E t \in 1..Len(tasks) : tasks[t].entry > 0 /\ tasks[t].state = "raised"

FailFast ==
    /\ (dpc = "await" /\ DirectCallFailed) => ENABLED DirectFailed
    /\ \A t \in 1..Len(tasks) :
          /\ tasks[t].state = "running" => ENABLED MakeImageDraws(t)
          /\ tasks[t].state = "drawn" => ENABLED MakeImageSaves(t)
          /\ tasks[t].state = "saved" => ENABLED MakeImageReturns(t)
    /\ (DirectResponded /\ DirectCallFailed) =>
          /\ DirectHTTPError
          /\ SubSeq(reply[1].content.detail, 1, 3) =
                <<"500", ": ", "Failed to generate image: ">>
          /\ \A j \in 1..Len(reply[1].content.detail) :
                reply[1].content.detail[j] # "/static/"
    /\ (pc = "await" /\ WebhookCallFailed) => ENABLED ServerError
    /\ (Responded /\ WebhookCallFailed) =>
          /\ Len(response[1].results) = 1
          /\ response[1].results[1].toolCallId = "error"
          /\ \A j \in 1..Len(response[1].results[1].result) :
                response[1].results[1].result[j] # "/static/"

\* the request has ended in failure while a sibling call is still running
WitnessFailedBeforeSibling ==
    /\ DirectHTTPError
    /\ FanOut > 1
    /\ DirectCallRunning

(***************************************************************************)
(* C16 as stated: a request produces no response while one of its provider *)
(* calls has not returned.                                                 *)
(***************************************************************************)
HungCallHangsRequest == DirectCallRunning => ~DirectResponded

(***************************************************************************)
(* C16, amended: while a provider call of a request has not returned and   *)
(* no call of the request has failed, the request has no response (a       *)
(* response while a call is still out is the failure caused by a sibling); *)
(* and once every call the request issues has returned or failed, the      *)
(* request eventually responds.                                            *)
(***************************************************************************)
NoResponseWhileWaiting ==
    (DirectCallRunning /\ ~DirectCallFailed) => ~DirectResponded

HangsOnlyWhileWaiting ==
    /\ []NoResponseWhileWaiting
    /\ (<>[](~DirectCallRunning)) => <>DirectResponded

\* one call of a fan-out has returned, the other is still out, and the
\* request is held
WitnessHeldByRunningCall ==
    /\ dpc = "await"
    /\ FanOut > 1
    /\ DirectCallRunning
    /\ ~DirectCallFailed
    /\ \E k \in 1..Len(IssuedByDirect) : IssuedByDirect[k].state = "returned"
    /\ ~DirectResponded

(***************************************************************************)
(* C17: no provider call is retried or repeated.  A direct request issues  *)
(* the calls of its route (1, 2 or 3, one per prompt, none for /health),   *)
(* all at once, and never more, also after a failure; it issues none only  *)
(* when it ends in an error before it submits them; a webhook request      *)
(* issues at most one call per generate_scene entry and two per            *)
(* generate_choices entry, and none for any other entry.                   *)
(***************************************************************************)
NoRetries ==
    /\ Len(IssuedByDirect) \in {0, FanOut}
    /\ dpc = "await" => Len(IssuedByDirect) = FanOut
    /\ (DirectResponded /\ Len(IssuedByDirect) < FanOut) => DirectNoUrl
    /\ ValidEnvelope =>
          \A i \in 1..Len(Entries) :
              IF (IF WellFormed(Entries[i]) THEN Recognized(i) ELSE FALSE)
                THEN Len(CallsOf(i)) \in
                        {0, IF endpoint = "/vapi/generate_scene" THEN 1 ELSE 2}
                ELSE Len(CallsOf(i)) = 0
    /\ \A t \in 1..Len(tasks) :
          IF tasks[t].entry = 0 THEN TRUE
          ELSE IF ValidEnvelope THEN tasks[t].entry \in 1..Len(Entries) ELSE FALSE

\* a three-call request ended in failure with three calls issued
WitnessFailedNotRetried ==
    /\ DirectHTTPError
    /\ route = "/generate_scene"
    /\ DirectCallFailed
    /\ Len(IssuedByDirect) = 3

(***************************************************************************)
(* C18: image generation does not block request handling.  A direct        *)
(* request that has arrived (GET /health or an image request) is handled   *)
(* to its response whenever its own provider calls end, whatever the       *)
(* webhook request does: also while the webhook handler stays suspended on *)
(* a provider call that never returns.                                     *)
(***************************************************************************)
WebhookSuspended ==
    /\ pc = "await"
    /\ \E t \in 1..Len(tasks) :
          tasks[t].entry > 0 /\ tasks[t].state \in {"running", "drawn", "saved"}

EntriesInSequence ==
    ValidEnvelope =>
        /\ \A i \in 1..Len(Entries) :
              Len(CallsOf(i)) > 0 =>
                  /\ i <= idx
                  /\ \A j \in 1..(i - 1) :
                        \A k \in 1..Len(CallsOf(j)) : CallsOf(j)[k].state = "returned"
        /\ \A i \in 1..Len(Entries) :
              (\E k \in 1..Len(CallsOf(i)) : CallsOf(i)[k].state = "raised") =>
                  \A j \in (i + 1)..Len(Entries) : Len(CallsOf(j)) = 0
        /\ (Responded /\ SomeCallFailed) =>
              \A j \in 1..Len(results) :
                  \A k \in 1..Len(response[1].results) :
                      response[1].results[k] # results[j]

\* the first entry failed, the request was answered, and the second entry,
\* well-formed and of the endpoint's own tool, was never started
WitnessLaterEntryNotStarted ==
    /\ Responded
    /\ ValidEnvelope
    /\ Len(Entries) = 2
    /\ \E k \in 1..Len(CallsOf(1)) : CallsOf(1)[k].state = "raised"
    /\ (IF WellFormed(Entries[2]) THEN Recognized(2) ELSE FALSE)
    /\ Len(CallsOf(2)) = 0

(***************************************************************************)
(* C20: a webhook request whose tool-call list is non-empty and holds only *)
(* malformed entries is answered with status 200 and an empty result list, *)
(* without the sentinel result, and issues no provider call.               *)
(***************************************************************************)
OnlyMalformedGivesEmptyResults ==
    (ValidEnvelope /\ WellFormedEntries = {}) =>
        /\ tasks = <<>>
        /\ files = {}
        /\ Responded =>
              /\ response[1].status_code = 200
              /\ response[1].results = <<>>

(***************************************************************************)
(* C21: a request that ends in failure can still grow the image store.     *)
(* At every state the stored files are exactly the files written by the    *)
(* make_image calls that succeeded (a call that has written its file can   *)
(* only return), and every path returned to a caller names one of them;    *)
(* the files written by the successful calls of a failed request (the      *)
(* siblings of a failed call of a concurrent dispatch, the earlier entries *)
(* of a webhook request whose later entry failed) are stored although no   *)
(* response holds their paths.                                             *)
(***************************************************************************)
\* the file a URL /static/<name> is served from
FileOf(u) == <<"static/", u[2], u[3]>>

WrittenBySuccessfulCalls == {FileWrittenBy(t) : t \in Written}

\* the paths in the response of the direct request and of the webhook request
DirectPaths ==
    IF DirectSuccess /\ FanOut > 0
      THEN {ReplyUrls[k] : k \in 1..Len(ReplyUrls)}
      ELSE {}
PathsIn(text) ==
    {SubSeq(text, j, j + 2) :
        j \in {i \in 1..(Len(text) - 2) : text[i] = "/static/"}}
WebhookPaths ==
    IF Responded
      THEN UNION {PathsIn(response[1].results[k].result) :
                     k \in 1..Len(response[1].results)}
      ELSE {}
ReturnedPaths == DirectPaths \cup WebhookPaths

FailedRequestsKeepFiles ==
    /\ files = WrittenBySuccessfulCalls
    /\ {FileOf(u) : u \in ReturnedPaths} \subseteq files
    /\ DirectHTTPError =>
          \A t \in Written :
              tasks[t].entry = 0 =>
                  /\ FileWrittenBy(t) \in files
                  /\ UrlWrittenBy(t) \notin ReturnedPaths
    /\ (Responded /\ WebhookCallFailed) =>
          \A t \in Written :
              tasks[t].entry > 0 =>
                  /\ FileWrittenBy(t) \in files
                  /\ UrlWrittenBy(t) \notin ReturnedPaths

\* both requests have ended in failure and no response holds a path: a call
\* of the direct fan-out failed while a sibling stored its image, and the
\* second entry of the webhook request failed after the first had stored its
\* image and had its result collected
WitnessFilesOfFailedRequests ==
    /\ DirectHTTPError
    /\ FanOut > 1
    /\ DirectCallFailed
    /\ \E t \in Returned : tasks[t].entry = 0
    /\ Responded
    /\ \E t \in Returned : tasks[t].entry = 1
    /\ \E t \in 1..Len(tasks) : tasks[t].entry = 2 /\ tasks[t].state = "raised"
    /\ Len(results) = 1
    /\ Cardinality(files) >= 2
    /\ ReturnedPaths = {}

====
